---- MODULE Spec2Model ----
(***************************************************************************)
(* Model of vttparser.py: parse_vtt, sort_records, collate_records,        *)
(* collate_records_v2 and their orchestration process_vtt_to_dictionary.   *)
(*                                                                         *)
(* A Python string is modelled as a sequence of lexemes (atomic runs of    *)
(* characters), so that strip, split, += and the three regular expressions *)
(* are computed and not assumed.  Python's None is the value None below,   *)
(* which is no string a line of the input alphabet can produce.            *)
(***************************************************************************)
EXTENDS Integers, Sequences, FiniteSets, TLC

\* ------------------------------------------------------------------ bounds
\* Longest input file, in lines, of the full pipeline specification Spec.
MaxLines == 6
\* Longest list of raw records of the collation specification CollateSpec.
MaxRecords == 3

\* ---------------------------------------------------------------- lexemes
None == <<"<None>">>

Digits == {"0", "1", "2", "3"}
\* lexemes made of \w characters only (digits are \w characters too)
WordLex == {"ch", "bad", "format", "hello", "hi", "there", "Alice", "Bob"} \cup Digits
Timestamps == {"00:00:01.000", "00:00:02.000", "00:00:03.000", "00:00:04.000"}
SP == " "

DigitValue == [d \in Digits |-> CASE d = "0" -> 0 [] d = "1" -> 1 [] d = "2" -> 2 [] d = "3" -> 3]

\* ------------------------------------------------------- string primitives
\* index of the first occurrence of lexeme x in s, 0 when absent
RECURSIVE IndexFrom(_, _, _)
IndexFrom(s, x, i) ==
    IF i > Len(s) THEN 0
    ELSE IF s[i] = x THEN i
    ELSE IndexFrom(s, x, i + 1)

Find(s, x) == IndexFrom(s, x, 1)

\* s.split(x, 1)[0]: what precedes the first x, all of s when x is absent
Before(s, x) ==
    LET k == Find(s, x) IN IF k = 0 THEN s ELSE SubSeq(s, 1, k - 1)

\* s.split(x, 1)[1]: what follows the first x (x occurs in s)
After(s, x) == SubSeq(s, Find(s, x) + 1, Len(s))

RECURSIVE LStrip(_)
LStrip(s) == IF s # <<>> /\ Head(s) = SP THEN LStrip(Tail(s)) ELSE s

RECURSIVE RStrip(_)
RStrip(s) == IF s # <<>> /\ s[Len(s)] = SP THEN RStrip(SubSeq(s, 1, Len(s) - 1)) ELSE s

\* str.strip()
Strip(s) == RStrip(LStrip(s))

\* s.split(x): the parts of s between the occurrences of x
RECURSIVE Split(_, _)
Split(s, x) ==
    LET k == Find(s, x)
    IN  IF k = 0 THEN <<s>>
        ELSE <<SubSeq(s, 1, k - 1)>> \o Split(SubSeq(s, k + 1, Len(s)), x)

\* length of the longest prefix of s, from index i on, whose lexemes are in class
RECURSIVE RunLen(_, _, _)
RunLen(s, class, i) ==
    IF i > Len(s) \/ s[i] \notin class THEN 0
    ELSE 1 + RunLen(s, class, i + 1)

\* ------------------------------------------------------ the three patterns
\* id_regex = ^([\w-]+\/[\d-]+): a greedy run of [\w-], a slash, a greedy run
\* of [\d-].  The slash is in neither class, so the first run cannot be
\* shortened to make the pattern match: it matches iff the lexeme after the
\* longest [\w-] run is the slash and at least one [\d-] lexeme follows.
IdHeadClass == WordLex \cup {"-"}

IdTailClassWord == WordLex \cup {"-"}

IdTailClass == Digits \cup {"-"}

IdHeadLen(l) == RunLen(l, IdHeadClass, 1)

IdMatch(l) ==
    LET h == IdHeadLen(l)
    IN  /\ h >= 1
        /\ h + 1 <= Len(l)
        /\ l[h + 1] = "/"
        /\ RunLen(l, IdTailClass, h + 2) >= 1

\* id_match.group(1)
IdGroup(l) == LET h == IdHeadLen(l) IN SubSeq(l, 1, h + 1 + RunLen(l, IdTailClass, h + 2))

\* id_match.group(1).split("/")[1].split("-")
IdParts(l) == Split(Split(IdGroup(l), "/")[2], "-")

\* timecode_regex, matched at the start of the line
TimecodeMatch(l) ==
    /\ Len(l) >= 5
    /\ l[1] \in Timestamps
    /\ l[2] = SP
    /\ l[3] = "-->"
    /\ l[4] = SP
    /\ l[5] \in Timestamps

\* speaker_block_start = <v (.+?)>, matched at the start of the line: the
\* name is the shortest non-empty run that a ">" follows.
SpeakerMatch(l) ==
    /\ Len(l) >= 3
    /\ l[1] = "<v "
    /\ IndexFrom(l, ">", 3) # 0

SpeakerName(l) == SubSeq(l, 2, IndexFrom(l, ">", 3) - 1)

\* ------------------------------------------------------------ input lines
BlankLine == <<>>
SpaceLine == <<SP>>
Id_1_1 == <<"ch", "/", "1", "-", "1">>
Id_1_2 == <<"ch", "/", "1", "-", "2">>
Id_01_1 == <<"ch", "/", "0", "1", "-", "1">>
Id_2_1 == <<"ch", "/", "2", "-", "1">>
Id_12 == <<"ch", "/", "1", "2">>
Id_1_2_3 == <<"ch", "/", "1", "-", "2", "-", "3">>
Id_1_ == <<"ch", "/", "1", "-">>
BadFormat == <<"bad", "/", "format", "/", "1">>
Timecode_A == <<"00:00:01.000", SP, "-->", SP, "00:00:02.000">>
Timecode_B == <<"00:00:03.000", SP, "-->", SP, "00:00:04.000">>
Speaker_Alice == <<"<v ", "Alice", ">", "hello", "</v>">>
Speaker_Bob == <<"<v ", "Bob", ">", SP, "hi">>
Continuation == <<"there", "</v>", SP>>

\* the lines an input file is made of
Lines ==
    { BlankLine, SpaceLine, Id_1_1, Id_1_2, Id_01_1, Id_2_1, Id_12, Id_1_2_3,
      Id_1_, BadFormat, Timecode_A, Timecode_B, Speaker_Alice, Speaker_Bob,
      Continuation }

\* ------------------------------------------------------------------ state
VARIABLES
    pc,                   \* the statement process_vtt_to_dictionary is at
    nread,                \* lines of the file read so far
    line,                 \* parse_vtt: the loop variable, after strip
    current_record,       \* parse_vtt: the accumulator
    block_record,         \* history: what the lines read since the last blank
                          \* line set, starting from an empty record
    records,              \* parse_vtt: the records emitted
    sorted_records,       \* process_vtt_to_dictionary locals
    collated_records,
    final_sorted_records,
    return_value

vars == <<pc, nread, line, current_record, block_record, records, sorted_records,
          collated_records, final_sorted_records, return_value>>

pipeline_vars == <<sorted_records, collated_records, final_sorted_records, return_value>>

EmptyRecord ==
    [ id |-> None, event_id |-> None, sequence |-> None, start |-> None,
      end |-> None, speaker |-> None, text |-> <<>> ]

Init ==
    /\ pc = "parse"
    /\ nread = 0
    /\ line = None
    /\ current_record = EmptyRecord
    /\ block_record = EmptyRecord
    /\ records = <<>>
    /\ sorted_records = <<>>
    /\ collated_records = <<>>
    /\ final_sorted_records = <<>>
    /\ return_value = <<>>

\* ----------------------------------------------------------------- parse_vtt
\* current_record["id"] = id_match.group(1)
SetId(rec, l) == [rec EXCEPT !.id = IdGroup(l)]

\* event_id, sequence_info = ...; both are stored
SetEvent(rec, l) ==
    LET parts == IdParts(l)
    IN  [rec EXCEPT !.event_id = parts[1], !.sequence = parts[2]]

\* current_record["start"], current_record["end"] = timecode_match.groups()
SetTimecode(rec, l) == [rec EXCEPT !.start = <<l[1]>>, !.end = <<l[5]>>]

\* the text a speaker line adds: up to </v> when the line has one
SpeakerText(l) ==
    IF Find(l, "</v>") # 0
    THEN Strip(Before(After(l, ">"), "</v>")) \o <<SP>>
    ELSE Strip(After(l, ">")) \o <<SP>>

SetSpeaker(rec, l) ==
    [rec EXCEPT !.speaker = SpeakerName(l), !.text = @ \o SpeakerText(l)]

\* current_record["text"] += line.split("</v>", 1)[0].strip() + " "
AppendText(rec, l) == [rec EXCEPT !.text = @ \o Strip(Before(l, "</v>")) \o <<SP>>]

\* current_record.get("speaker"): not None and not the empty string
Truthy(s) == s # None /\ s # <<>>

\* the if/elif chain on a non-blank line that does not raise
HandleLine(rec, l) ==
    IF IdMatch(l) THEN (IF Len(IdParts(l)) = 2 THEN SetEvent(SetId(rec, l), l)
                        ELSE SetId(rec, l))
    ELSE IF TimecodeMatch(l) THEN SetTimecode(rec, l)
    ELSE IF SpeakerMatch(l) THEN SetSpeaker(rec, l)
    ELSE IF Truthy(rec.speaker) THEN AppendText(rec, l)
    ELSE rec

\* for line in file, with l = line.strip()
Read(l) ==
    /\ nread' = nread + 1
    /\ line' = l
    /\ block_record' = IF l = <<>> THEN EmptyRecord ELSE HandleLine(block_record, l)

\* the loop has a next line
MoreLines == pc = "parse" /\ nread < MaxLines

BlankFlushNoReset ==
    /\ MoreLines
    /\ current_record.start # None
    /\ \E raw \in Lines :
        LET l == Strip(raw)
        IN  /\ l = <<>>
            /\ Read(l)
            /\ records' = Append(records, current_record)
            /\ UNCHANGED <<pc, current_record, pipeline_vars>>

\* if not line: if current_record["start"] is not None: append a copy, reset
BlankFlush ==
    /\ MoreLines
    /\ current_record.start # None
    /\ \E raw \in Lines :
        LET l == Strip(raw)
        IN  /\ l = <<>>
            /\ Read(l)
            /\ records' = Append(records, current_record)
            /\ current_record' = EmptyRecord
            /\ UNCHANGED <<pc, pipeline_vars>>

\* if not line: current_record["start"] is None: nothing is done
BlankNoStart ==
    /\ MoreLines
    /\ current_record.start = None
    /\ \E raw \in Lines :
        LET l == Strip(raw)
        IN  /\ l = <<>>
            /\ Read(l)
            /\ UNCHANGED <<pc, current_record, records, pipeline_vars>>

\* elif id_match: the split gives exactly two parts
IdLine ==
    /\ MoreLines
    /\ \E raw \in Lines :
        LET l == Strip(raw)
        IN  /\ l # <<>>
            /\ IdMatch(l)
            /\ Len(IdParts(l)) = 2
            /\ Read(l)
            /\ current_record' = SetEvent(SetId(current_record, l), l)
            /\ UNCHANGED <<pc, records, pipeline_vars>>

IdLineSkipped ==
    /\ MoreLines
    /\ \E raw \in Lines :
        LET l == Strip(raw)
        IN  /\ l # <<>>
            /\ IdMatch(l)
            /\ Len(IdParts(l)) # 2
            /\ Read(l)
            /\ current_record' = SetId(current_record, l)
            /\ UNCHANGED <<pc, records, pipeline_vars>>

\* elif id_match: the tuple unpacking raises ValueError after id was assigned
IdLineRaises ==
    /\ MoreLines
    /\ \E raw \in Lines :
        LET l == Strip(raw)
        IN  /\ l # <<>>
            /\ IdMatch(l)
            /\ Len(IdParts(l)) # 2
            /\ Read(l)
            /\ current_record' = SetId(current_record, l)
            /\ pc' = "raise_parse"
            /\ UNCHANGED <<records, pipeline_vars>>

\* elif timecode_match
TimecodeLine ==
    /\ MoreLines
    /\ \E raw \in Lines :
        LET l == Strip(raw)
        IN  /\ l # <<>>
            /\ ~IdMatch(l)
            /\ TimecodeMatch(l)
            /\ Read(l)
            /\ current_record' = SetTimecode(current_record, l)
            /\ UNCHANGED <<pc, records, pipeline_vars>>

\* elif speaker_start
SpeakerLine ==
    /\ MoreLines
    /\ \E raw \in Lines :
        LET l == Strip(raw)
        IN  /\ l # <<>>
            /\ ~IdMatch(l)
            /\ ~TimecodeMatch(l)
            /\ SpeakerMatch(l)
            /\ Read(l)
            /\ current_record' = SetSpeaker(current_record, l)
            /\ UNCHANGED <<pc, records, pipeline_vars>>

\* elif current_record.get("speaker")
ContinuationLine ==
    /\ MoreLines
    /\ Truthy(current_record.speaker)
    /\ \E raw \in Lines :
        LET l == Strip(raw)
        IN  /\ l # <<>>
            /\ ~IdMatch(l)
            /\ ~TimecodeMatch(l)
            /\ ~SpeakerMatch(l)
            /\ Read(l)
            /\ current_record' = AppendText(current_record, l)
            /\ UNCHANGED <<pc, records, pipeline_vars>>

OtherLineAppends ==
    /\ MoreLines
    /\ ~Truthy(current_record.speaker)
    /\ \E raw \in Lines :
        LET l == Strip(raw)
        IN  /\ l # <<>>
            /\ ~IdMatch(l)
            /\ ~TimecodeMatch(l)
            /\ ~SpeakerMatch(l)
            /\ Read(l)
            /\ current_record' = AppendText(current_record, l)
            /\ UNCHANGED <<pc, records, pipeline_vars>>

\* no branch of the if/elif chain is taken
OtherLine ==
    /\ MoreLines
    /\ ~Truthy(current_record.speaker)
    /\ \E raw \in Lines :
        LET l == Strip(raw)
        IN  /\ l # <<>>
            /\ ~IdMatch(l)
            /\ ~TimecodeMatch(l)
            /\ ~SpeakerMatch(l)
            /\ Read(l)
            /\ UNCHANGED <<pc, current_record, records, pipeline_vars>>

EndOfInputAlways ==
    /\ pc = "parse"
    /\ records' = Append(records, current_record)
    /\ pc' = "sort"
    /\ nread' = 0
    /\ line' = None
    /\ current_record' = EmptyRecord
    /\ block_record' = EmptyRecord
    /\ UNCHANGED pipeline_vars

\* end of the file: the last record is appended if it has a start, and
\* parse_vtt returns records; its other locals end with the call
EndOfInput ==
    /\ pc = "parse"
    /\ records' = IF current_record.start # None
                  THEN Append(records, current_record)
                  ELSE records
    /\ pc' = "sort"
    /\ nread' = 0
    /\ line' = None
    /\ current_record' = EmptyRecord
    /\ block_record' = EmptyRecord
    /\ UNCHANGED pipeline_vars

ParseNext ==
    \/ BlankFlush
    \/ BlankNoStart
    \/ IdLine
    \/ IdLineRaises
    \/ TimecodeLine
    \/ SpeakerLine
    \/ ContinuationLine
    \/ OtherLine
    \/ EndOfInput

\* -------------------------------------------------------------- sort_records
\* int(s): the value of a string of decimal digits; -1 stands for the
\* exception int raises (TypeError on None, ValueError on "" or a non-digit)
RECURSIVE IntAcc(_, _)
IntAcc(s, acc) ==
    IF s = <<>> THEN acc
    ELSE IF Head(s) \notin Digits THEN -1
    ELSE IntAcc(Tail(s), acc * 10 + DigitValue[Head(s)])

IntEmptyIsZero(s) == IF s = None THEN -1 ELSE IntAcc(s, 0)

ParseInt(s) == IF s = None \/ s = <<>> THEN -1 ELSE IntAcc(s, 0)

\* tuple comparison of two keys of the same length
RECURSIVE KeyLess(_, _)
KeyLess(a, b) ==
    IF a = <<>> THEN FALSE
    ELSE IF Head(a) < Head(b) THEN TRUE
    ELSE IF Head(a) > Head(b) THEN FALSE
    ELSE KeyLess(Tail(a), Tail(b))

\* ps is sorted; p goes after every element whose key is not greater (stable)
RECURSIVE InsertSorted(_, _)
InsertSorted(ps, p) ==
    IF ps = <<>> THEN <<p>>
    ELSE IF KeyLess(p.key, Head(ps).key) THEN <<p>> \o ps
    ELSE <<Head(ps)>> \o InsertSorted(Tail(ps), p)

RECURSIVE SortPairs(_, _)
SortPairs(ps, acc) ==
    IF ps = <<>> THEN acc
    ELSE SortPairs(Tail(ps), InsertSorted(acc, Head(ps)))

\* sorted(rs, key=...) with the keys ks[i] computed for each rs[i]
Sorted(rs, ks) ==
    LET ps == [i \in 1..Len(rs) |-> [key |-> ks[i], rec |-> rs[i]]]
        out == SortPairs(ps, <<>>)
    IN  [i \in 1..Len(rs) |-> out[i].rec]

\* key=lambda r: (int(r["event_id"]), int(r["sequence"]))
SortKey(r) == <<ParseInt(r.event_id), ParseInt(r.sequence)>>

KeyRaises(k) == \E i \in 1..Len(k) : k[i] = -1

sort_records(rs) == Sorted(rs, [i \in 1..Len(rs) |-> SortKey(rs[i])])

\* ----------------------------------------------------------- collate_records
\* position in the dict collated (kept in insertion order) of key e, 0 if absent
RECURSIVE KeyIndex(_, _, _)
KeyIndex(collated, e, i) ==
    IF i > Len(collated) THEN 0
    ELSE IF collated[i].event_id = e THEN i
    ELSE KeyIndex(collated, e, i + 1)

NewEventEndIsStart(record) ==
    [ id |-> record.id, event_id |-> record.event_id, start |-> record.start,
      end |-> record.start, speaker |-> record.speaker, text |-> record.text ]

\* collated[event_id] = {...}
NewEvent(record) ==
    [ id |-> record.id, event_id |-> record.event_id, start |-> record.start,
      end |-> record.end, speaker |-> record.speaker, text |-> record.text ]

MergeEventKeepEnd(entry, record) ==
    [entry EXCEPT !.text = @ \o <<SP>> \o record.text]

\* collated[event_id]["text"] += " " + text; collated[event_id]["end"] = end
MergeEvent(entry, record) ==
    [entry EXCEPT !.text = @ \o <<SP>> \o record.text, !.end = record.end]

RECURSIVE CollateFrom(_, _)
CollateFrom(rs, collated) ==
    IF rs = <<>> THEN collated
    ELSE LET record == Head(rs)
             k == KeyIndex(collated, record.event_id, 1)
         IN  IF k # 0
             THEN CollateFrom(Tail(rs),
                      [collated EXCEPT ![k] = MergeEvent(collated[k], record)])
             ELSE CollateFrom(Tail(rs), Append(collated, NewEvent(record)))

collate_records(rs) == CollateFrom(rs, <<>>)

\* -------------------------------------------------------- collate_records_v2
SameSpeakerNotNone(a, b) == a # None /\ a = b

\* current_collation["speaker"] == record["speaker"]
SameSpeaker(a, b) == a = b

NewTurnSeedsId(record) ==
    [ id |-> record.id, event_id |-> record.event_id, start |-> record.start,
      end |-> record.end, speaker |-> record.speaker, text |-> record.text,
      collated_events |-> <<record.id>> ]

\* current_collation = {...}
NewTurn(record) ==
    [ id |-> record.id, event_id |-> record.event_id, start |-> record.start,
      end |-> record.end, speaker |-> record.speaker, text |-> record.text,
      collated_events |-> <<record.event_id>> ]

MergeTurnNoEvent(turn, record) ==
    [turn EXCEPT !.text = @ \o <<SP>> \o record.text, !.end = record.end]

MergeTurnPrepend(turn, record) ==
    [turn EXCEPT !.text = @ \o <<SP>> \o record.text,
                 !.end = record.end,
                 !.collated_events = <<record.event_id>> \o @]

\* the speaker is the same: text, end and collated_events are extended
MergeTurn(turn, record) ==
    [turn EXCEPT !.text = @ \o <<SP>> \o record.text,
                 !.end = record.end,
                 !.collated_events = Append(@, record.event_id)]

\* cur is <<>> for current_collation = None, else <<current_collation>>
RECURSIVE CollateV2From(_, _, _)
CollateV2From(rs, collated, cur) ==
    IF rs = <<>> THEN collated \o cur
    ELSE LET record == Head(rs)
         IN  IF cur = <<>>
             THEN CollateV2From(Tail(rs), collated, <<NewTurn(record)>>)
             ELSE IF SameSpeaker(cur[1].speaker, record.speaker)
             THEN CollateV2From(Tail(rs), collated, <<MergeTurn(cur[1], record)>>)
             ELSE CollateV2From(Tail(rs), collated \o cur, <<NewTurn(record)>>)

collate_records_v2(rs) == CollateV2From(rs, <<>>, <<>>)

\* ------------------------------------------------- process_vtt_to_dictionary
parse_vars == <<nread, line, current_record, block_record, records>>

\* sorted_records = sort_records(records); int() may raise
SortRecords ==
    /\ pc = "sort"
    /\ IF \E i \in 1..Len(records) : KeyRaises(SortKey(records[i]))
       THEN /\ pc' = "raise_sort"
            /\ UNCHANGED sorted_records
       ELSE /\ pc' = "collate"
            /\ sorted_records' = sort_records(records)
    /\ UNCHANGED <<parse_vars, collated_records, final_sorted_records, return_value>>

CollateRecordsInPlace ==
    /\ pc = "collate"
    /\ collated_records' = collate_records(sorted_records)
    /\ sorted_records' =
           [i \in 1..Len(sorted_records) |->
               LET e == sorted_records[i].event_id
                   c == collate_records(sorted_records)
               IN  IF KeyIndex(sorted_records, e, 1) = i
                   THEN [sorted_records[i] EXCEPT !.text = c[KeyIndex(c, e, 1)].text,
                                                  !.end = c[KeyIndex(c, e, 1)].end]
                   ELSE sorted_records[i]]
    /\ pc' = "resort"
    /\ UNCHANGED <<parse_vars, final_sorted_records, return_value>>

\* collated_records = collate_records(sorted_records)
CollateRecords ==
    /\ pc = "collate"
    /\ collated_records' = collate_records(sorted_records)
    /\ pc' = "resort"
    /\ UNCHANGED <<parse_vars, sorted_records, final_sorted_records, return_value>>

\* final_sorted_records = sorted(collated_records, key=lambda r: int(r["event_id"]))
Resort ==
    /\ pc = "resort"
    /\ final_sorted_records' =
           Sorted(collated_records,
                  [i \in 1..Len(collated_records) |-> <<ParseInt(collated_records[i].event_id)>>])
    /\ pc' = "collate_v2"
    /\ UNCHANGED <<parse_vars, sorted_records, collated_records, return_value>>

\* return_value = collate_records_v2(final_sorted_records)
CollateRecordsV2 ==
    /\ pc = "collate_v2"
    /\ return_value' = collate_records_v2(final_sorted_records)
    /\ pc' = "done"
    /\ UNCHANGED <<parse_vars, sorted_records, collated_records, final_sorted_records>>

PipelineNext ==
    \/ SortRecords
    \/ CollateRecords
    \/ Resort
    \/ CollateRecordsV2

Next == ParseNext \/ PipelineNext

Spec == Init /\ [][Next]_vars

\* ------------------------------------------------- a file of a single block
\* The files without a blank line, without a speaker line and without an
\* identifier line that raises: the lines are identifier lines that split in
\* two, timecode lines and lines that match no pattern.  No speaker is ever
\* set, so the branch of a continuation line is never taken.
BlockNext ==
    \/ IdLine
    \/ TimecodeLine
    \/ OtherLine
    \/ EndOfInput
    \/ PipelineNext

BlockSpec == Init /\ [][BlockNext]_vars

\* ------------------------------------------------ collation on given records
\* Records parse_vtt emits for blocks "ch/<ev>-<seq>", a timecode line and
\* optional speaker lines: the text of a block depends on its speaker lines.
BlockText(spk, seq) ==
    IF spk = None THEN <<>>
    ELSE IF spk = <<"Alice">>
         THEN (IF seq = <<"1">> THEN <<"hello", SP>> ELSE <<"hello", SP, "there", SP>>)
         ELSE (IF seq = <<"1">> THEN <<"hi", SP>> ELSE <<"hi", SP, "there", SP>>)

RawRecord(ev, seq, spk) ==
    [ id |-> <<"ch", "/">> \o ev \o <<"-">> \o seq,
      event_id |-> ev, sequence |-> seq,
      start |-> IF seq = <<"1">> THEN <<"00:00:01.000">> ELSE <<"00:00:03.000">>,
      end |-> IF seq = <<"1">> THEN <<"00:00:02.000">> ELSE <<"00:00:04.000">>,
      speaker |-> spk, text |-> BlockText(spk, seq) ]

\* a block with a timecode line only
TimecodeOnlyRecord ==
    [EmptyRecord EXCEPT !.start = <<"00:00:01.000">>, !.end = <<"00:00:02.000">>]

RawRecords ==
    { RawRecord(ev, seq, spk) :
        ev \in {<<"1">>, <<"0", "1">>, <<"2">>},
        seq \in {<<"1">>, <<"2">>},
        spk \in {None, <<"Alice">>, <<"Bob">>} } \cup {TimecodeOnlyRecord}

SeqsUpTo(S, n) == UNION { [1..k -> S] : k \in 0..n }

\* parse_vtt has returned the records of some file
InitCollate ==
    /\ pc = "sort"
    /\ nread = 0
    /\ line = None
    /\ current_record = EmptyRecord
    /\ block_record = EmptyRecord
    /\ records \in SeqsUpTo(RawRecords, MaxRecords)
    /\ sorted_records = <<>>
    /\ collated_records = <<>>
    /\ final_sorted_records = <<>>
    /\ return_value = <<>>

CollateSpec == InitCollate /\ [][PipelineNext]_vars

\* ------------------------------------------------------- helpers of the claims
RECURSIVE SumLens(_)
SumLens(turns) ==
    IF turns = <<>> THEN 0
    ELSE Len(Head(turns).collated_events) + SumLens(Tail(turns))

Range(f) == { f[i] : i \in DOMAIN f }

Done == pc = "done"

\* C1: in the output of the pipeline no two adjacent turns have the same
\* speaker, None counting as equal to None.
C1_AdjacentSpeakersDiffer ==
    Done => \A i \in 1..(Len(return_value) - 1) :
                return_value[i].speaker # return_value[i + 1].speaker

C1_Witness ==
    /\ Done
    /\ Len(return_value) >= 2
    /\ return_value[1].speaker = None

NumericIds(turn) == { ParseInt(e) : e \in Range(turn.collated_events) }

\* C2: for adjacent turns of the output, every numeric event id of the earlier
\* turn is strictly less than every numeric event id of the later turn.
C2_StrictEventOrder ==
    Done => \A i \in 1..(Len(return_value) - 1) :
                \A a \in NumericIds(return_value[i]) :
                    \A b \in NumericIds(return_value[i + 1]) : a < b

EventIdsOf(rs) == { rs[i].event_id : i \in 1..Len(rs) }

\* C3 as stated: the number of raw records equals the number of entries of
\* all collated_events lists together.
C3_RecordCountEqualsEntries ==
    Done => Len(records) = SumLens(return_value)

\* C3 amended: the entries of all collated_events lists together are as many
\* as the distinct event_id strings of the raw records, hence at most as many
\* as the raw records, and exactly as many when no two share an event_id.
C3_EventCountEqualsEntries ==
    Done => /\ SumLens(return_value) = Cardinality(EventIdsOf(records))
            /\ SumLens(return_value) <= Len(records)
            /\ (SumLens(return_value) = Len(records)
                    <=> \A i, j \in 1..Len(records) :
                            records[i].event_id = records[j].event_id => i = j)

C3_Witness ==
    /\ Done
    /\ Len(records) = 2
    /\ SumLens(return_value) = 1

Min(S) == CHOOSE x \in S : \A y \in S : x <= y

Max(S) == CHOOSE x \in S : \A y \in S : y <= x

\* the texts of the records rs joined by single spaces (rs is not empty)
RECURSIVE JoinTexts(_)
JoinTexts(rs) ==
    IF Len(rs) = 1 THEN rs[1].text
    ELSE JoinTexts(SubSeq(rs, 1, Len(rs) - 1)) \o <<SP>> \o rs[Len(rs)].text

AllSingletons(turns) == \A k \in 1..Len(turns) : Len(turns[k].collated_events) = 1

\* C4: a pipeline output whose turns all have a singleton collated_events is
\* returned unchanged by collate_records followed by collate_records_v2.
C4_SingletonTurnsAreFixed ==
    (Done /\ AllSingletons(return_value))
        => collate_records_v2(collate_records(return_value)) = return_value

C4_Witness ==
    /\ Done
    /\ Len(return_value) = 3
    /\ AllSingletons(return_value)
    /\ return_value[1].speaker = return_value[3].speaker

Collated == pc \in {"resort", "collate_v2", "done"}

\* positions in sorted_records of the raw records of event e
Fragments(e) == { i \in 1..Len(sorted_records) : sorted_records[i].event_id = e }

FragmentRecords(e) == SelectSeq(sorted_records, LAMBDA r : r.event_id = e)

\* C5: collate_records gives one record per distinct event_id of the sorted
\* records, in first-seen order; id, start and speaker are those of the event's
\* first (lowest-sequence) record, end that of its last (highest-sequence)
\* record, text the texts in sorted order joined by single spaces.
C5_OneRecordPerEvent ==
    Collated =>
        /\ Len(collated_records) = Cardinality(EventIdsOf(sorted_records))
        /\ EventIdsOf(collated_records) = EventIdsOf(sorted_records)
        /\ \A j, k \in 1..Len(collated_records) :
               j < k => Min(Fragments(collated_records[j].event_id))
                            < Min(Fragments(collated_records[k].event_id))
        /\ \A k \in 1..Len(collated_records) :
               LET c == collated_records[k]
                   first == sorted_records[Min(Fragments(c.event_id))]
                   last == sorted_records[Max(Fragments(c.event_id))]
               IN  /\ DOMAIN c = {"id", "event_id", "start", "end", "speaker", "text"}
                   /\ c.id = first.id
                   /\ c.start = first.start
                   /\ c.speaker = first.speaker
                   /\ c.end = last.end
                   /\ c.text = JoinTexts(FragmentRecords(c.event_id))
                   /\ \A i \in Fragments(c.event_id) :
                          /\ ParseInt(first.sequence) <= ParseInt(sorted_records[i].sequence)
                          /\ ParseInt(sorted_records[i].sequence) <= ParseInt(last.sequence)

\* two events, one of two fragments that came in the file in reverse order
C5_Witness ==
    /\ Collated
    /\ Len(sorted_records) = 3
    /\ Len(collated_records) = 2
    /\ sorted_records # records
    /\ \E k \in 1..2 :
           /\ Cardinality(Fragments(collated_records[k].event_id)) = 2
           /\ collated_records[k].start # <<"00:00:03.000">>
           /\ collated_records[k].end = <<"00:00:04.000">>

\* first positions of the maximal runs of equal speakers in final_sorted_records
RunStarts ==
    { i \in 1..Len(final_sorted_records) :
        i = 1 \/ final_sorted_records[i].speaker # final_sorted_records[i - 1].speaker }

RunStart(k) == CHOOSE i \in RunStarts : Cardinality({ j \in RunStarts : j <= i }) = k

RunEnd(k) ==
    IF k = Cardinality(RunStarts) THEN Len(final_sorted_records) ELSE RunStart(k + 1) - 1

\* C6: the turns of collate_records_v2 are the maximal runs of equal speakers
\* of its input: collated_events lists the run's event ids in input order,
\* event_id is its first element, id, start and speaker are those of the run's
\* first record, end that of its last, text the run's texts joined by spaces.
C6_TurnsAreMaximalRuns ==
    Done =>
        /\ Len(return_value) = Cardinality(RunStarts)
        /\ \A k \in 1..Len(return_value) :
               LET t == return_value[k]
                   run == SubSeq(final_sorted_records, RunStart(k), RunEnd(k))
               IN  /\ t.collated_events = [i \in 1..Len(run) |-> run[i].event_id]
                   /\ t.event_id = t.collated_events[1]
                   /\ t.id = run[1].id
                   /\ t.start = run[1].start
                   /\ t.speaker = run[1].speaker
                   /\ t.end = run[Len(run)].end
                   /\ t.text = JoinTexts(run)

C6_Witness ==
    /\ Done
    /\ Len(final_sorted_records) = 3
    /\ Len(return_value) = 2
    /\ Len(return_value[2].collated_events) = 2
    /\ return_value[2].end # final_sorted_records[2].end

\* a step of parse_vtt's loop that reads one more line
ReadsLine == pc = "parse" /\ nread' = nread + 1

\* C7: a block without a timecode line is dropped: every record the parser
\* emits carries only what the lines of its own block (the lines since the
\* last blank line) set.
C7_EmittedRecordIsOwnBlock ==
    [][(pc = "parse" /\ Len(records') > Len(records))
           => records'[Len(records')] = block_record]_vars

\* the number of hyphens of the id segment after the slash
Hyphens(l) ==
    Cardinality({ i \in (IdHeadLen(l) + 2)..Len(IdGroup(l)) : l[i] = "-" })

\* l matches the identifier pattern and its id segment has not two parts
MalformedId(l) == l # None /\ l # <<>> /\ IdMatch(l) /\ Hyphens(l) # 1

\* C8: a line that matches the identifier pattern but does not split into two
\* parts makes the parser fail; the pipeline then gives no output, whatever
\* blocks were completed before.
C8_MalformedIdFails ==
    /\ MalformedId(line) => pc = "raise_parse"
    /\ pc = "raise_parse" => (MalformedId(line) /\ return_value = <<>>)

C8_Witness ==
    /\ pc = "raise_parse"
    /\ line = Id_1_2_3
    /\ Len(records) >= 1

\* C9 as stated: the line bad/format/1 makes the parser fail or leaves the
\* current record and the output unchanged, speaker set or not.
C9_BadFormatFailsOrIgnored ==
    [][(ReadsLine /\ line' = BadFormat)
           => \/ pc' = "raise_parse"
              \/ (current_record' = current_record /\ records' = records)]_vars

\* C9 amended: the line bad/format/1 matches no pattern and never makes the
\* parser fail; with no speaker set on the current record it changes nothing,
\* with a speaker set it is appended to the record's text, followed by a
\* space, and nothing else changes.
C9_BadFormatIsTextOrIgnored ==
    [][(ReadsLine /\ line' = BadFormat)
           => /\ pc' = "parse"
              /\ records' = records
              /\ current_record' =
                     IF current_record.speaker = None THEN current_record
                     ELSE [current_record EXCEPT !.text = @ \o BadFormat \o <<SP>>]]_vars

C9_Witness ==
    /\ pc = "parse"
    /\ line = BadFormat
    /\ current_record.speaker = <<"Alice">>
    /\ current_record.text = <<"hello", SP>> \o BadFormat \o <<SP>>

\* s is a non-empty string of decimal digits
IsIntString(s) == s # None /\ s # <<>> /\ \A i \in 1..Len(s) : s[i] \in Digits

Unsortable(rs) ==
    \E i \in 1..Len(rs) : ~IsIntString(rs[i].event_id) \/ ~IsIntString(rs[i].sequence)

\* C10: sorting fails, and the pipeline returns nothing, iff some emitted
\* record has an event_id or a sequence that is no integer (empty, or None).
C10_SortFailsIffNotInteger ==
    /\ pc = "raise_sort" => (Unsortable(records) /\ return_value = <<>>)
    /\ pc \in {"collate", "resort", "collate_v2", "done"} => ~Unsortable(records)

C10_Witness ==
    /\ pc = "raise_sort"
    /\ \E i \in 1..Len(records) : records[i].event_id = None
    /\ \E i \in 1..Len(records) : records[i].sequence = <<>>

\* C11: no stage changes a record handed on: the records already emitted by
\* the parser stay as they are while further lines are read and in every later
\* stage, and each of collate_records, the second sort and collate_records_v2
\* leaves its input list as it was.
C11_HandedOnRecordsUnchanged ==
    [][/\ pc = "parse" => SubSeq(records', 1, Len(records)) = records
       /\ pc # "parse" => records' = records
       /\ pc \in {"collate", "resort", "collate_v2"} => sorted_records' = sorted_records
       /\ pc \in {"resort", "collate_v2"} => collated_records' = collated_records
       /\ pc = "collate_v2" => final_sorted_records' = final_sorted_records]_vars

\* two records of one event were emitted and merged, the second ending later
C11_Witness ==
    /\ Done
    /\ Len(records) = 2
    /\ Len(collated_records) = 1
    /\ collated_records[1].end # records[1].end
    /\ sorted_records = records

C13_EmptyInputEmptyOutput ==
    [][/\ (pc = "parse" /\ nread = 0 /\ nread' = 0 /\ pc' # "parse") =>
              (pc' = "sort" /\ records' = <<>>)
       /\ (pc = "sort" /\ records = <<>>) =>
              (pc' = "collate" /\ sorted_records' = <<>>)
       /\ (pc = "collate" /\ sorted_records = <<>>) =>
              (pc' = "resort" /\ collated_records' = <<>>)
       /\ (pc = "resort" /\ collated_records = <<>>) =>
              (pc' = "collate_v2" /\ final_sorted_records' = <<>>)
       /\ (pc = "collate_v2" /\ final_sorted_records = <<>>) =>
              (pc' = "done" /\ return_value' = <<>>)]_vars

C13_Witness ==
    /\ Done
    /\ records = <<>>
    /\ sorted_records = <<>>
    /\ final_sorted_records = <<>>
    /\ return_value = <<>>

\* C14: every record the parser has emitted has a start and an end; records
\* are appended at the end of the output (file order), at most one per step and
\* only on a blank line or at the end of the file; a blank line or the end of
\* the file that directly follows a blank line emits nothing.
C14_OneRecordPerBoundary ==
    [][pc = "parse" =>
          /\ \A i \in 1..Len(records') :
                 records'[i].start # None /\ records'[i].end # None
          /\ SubSeq(records', 1, Len(records)) = records
          /\ Len(records') <= Len(records) + 1
          /\ Len(records') > Len(records) =>
                 /\ (ReadsLine /\ line' = <<>>) \/ pc' = "sort"
                 /\ records'[Len(records')] = current_record
          /\ (line = <<>> /\ ((ReadsLine /\ line' = <<>>) \/ pc' = "sort")) =>
                 records' = records]_vars

\* a timecode line and two blank lines, or one blank line around it
C14_Witness ==
    /\ pc = "parse"
    /\ nread = 3
    /\ line = <<>>
    /\ Len(records) = 1
    /\ records[1].id = None
    /\ current_record = EmptyRecord

\* the collated_events lists of the turns, one after the other
RECURSIVE AllCollatedEvents(_)
AllCollatedEvents(turns) ==
    IF turns = <<>> THEN <<>>
    ELSE Head(turns).collated_events \o AllCollatedEvents(Tail(turns))

\* C15: the collated_events lists of the output turns, concatenated in output
\* order, hold every distinct event_id string of the parser's records exactly
\* once and nothing else, in non-decreasing numeric order.
C15_CollatedEventsCoverEventIds ==
    Done =>
        LET c == AllCollatedEvents(return_value)
        IN  /\ Range(c) = EventIdsOf(records)
            /\ \A i, j \in 1..Len(c) : c[i] = c[j] => i = j
            /\ \A i \in 1..(Len(c) - 1) : ParseInt(c[i]) <= ParseInt(c[i + 1])

\* three events, two of the same number, that came last-first in the file
C15_Witness ==
    /\ Done
    /\ Len(records) = 3
    /\ records[1].event_id = <<"2">>
    /\ Len(return_value) = 2
    /\ Len(AllCollatedEvents(return_value)) = 3
    /\ ParseInt(AllCollatedEvents(return_value)[1]) = ParseInt(AllCollatedEvents(return_value)[2])

====
